---- MODULE Spec2Model ----
(***************************************************************************)
(* Booking routes of the vehicle-service booking API                       *)
(* (server/routes/bookings.js).  Every route handler is an async function: *)
(* it runs synchronously up to an awaited database call and resumes later, *)
(* so handlers of different requests interleave at their awaits.  A        *)
(* handler is modelled by one action per database access, together with    *)
(* the synchronous code that follows that access.                          *)
(*                                                                         *)
(* The session state of the single-page client (src/contexts/              *)
(* AuthContext.jsx) is modelled the same way: initAuth, login and register *)
(* are async functions that resume when their HTTP request settles.        *)
(***************************************************************************)
EXTENDS Integers, Sequences, FiniteSets, TLC

VARIABLES services, bookings, reqs, resp, issued

\* AuthProvider: the user, token and loading state, the token item of
\* localStorage, the position of the mount effect (initAuth), the login and
\* register requests awaiting their response, and the number of calls made.
VARIABLES user, token, loading, localStorage, mount, pending, authCalls

serverVars == <<services, bookings, reqs, resp, issued>>

authVars == <<user, token, loading, localStorage, mount, pending, authCalls>>

vars == <<services, bookings, reqs, resp, issued,
          user, token, loading, localStorage, mount, pending, authCalls>>

(* ---------------- bounds ---------------- *)
MaxBookings == 2
MaxInFlight == 2
MaxRequests == 3
MaxAuthCalls == 3

(* ---------------- identity store, catalog ---------------- *)
UserIds == {"u1", "u2", "m1", "m2", "a1"}

\* The role attribute of the User records.
RoleOf(u) ==
  CASE u \in {"u1", "u2"} -> "user"
    [] u \in {"m1", "m2"} -> "mechanic"
    [] u = "a1" -> "admin"
    [] OTHER -> "norole"

ServiceIds == {"s1", "s2"}
Prices == {50, 80}

\* Well-formed object ids that resolve to no document, and a string that is
\* not an object id at all.
AbsentUserId == "u9"
AbsentServiceId == "s9"
MalformedId == "zz"
MalformedBookingId == 0

NoMechanic == "none"
NoStatus == ""

Statuses == {"pending", "approved", "rejected", "in-progress", "completed", "cancelled"}

BookingIdInputs == (1..MaxBookings) \cup {MalformedBookingId}
UserIdInputs == UserIds \cup {AbsentUserId, MalformedId}
ServiceIdInputs == ServiceIds \cup {AbsentServiceId, MalformedId}
StatusInputs == Statuses \cup {"bogus"}
FilterInputs == Statuses \cup {"bogus", NoStatus}
DayInputs == {-1, 0, 1}
TzInputs == {-5, 5}

Slots == 1..MaxInFlight

Idle == [op |-> "idle"]

NoBody == <<>>

\* resp is the response a handler step has just sent: the request it answers
\* (op, caller, req), the status code, the message and the booking data of
\* the body, together with what the handler had loaded when it answered
\* (local) and the ledger as it was before the step (before).
NoResp == [op |-> "none"]

NoLocal == <<>>

Response(op, caller, req, code, message, body, local) ==
  [op |-> op, caller |-> caller, req |-> req, code |-> code, message |-> message,
   body |-> body, local |-> local, before |-> bookings]

(* ---------------- helpers ---------------- *)
isMongoId(x) == x # MalformedId

\* Booking.findById / findByIdAndUpdate: a malformed id raises a CastError
\* (caught by the handler's catch block), an absent id gives null.
BookingExists(id) == id \in 1..Len(bookings)

\* new Date(appointmentDate) for a date-only ISO string is midnight UTC of
\* that calendar day; today.setHours(0,0,0,0) is midnight local time.  day is
\* the calendar day relative to the server's local date, tz the server's
\* offset from UTC in hours; both instants are in hours since midnight UTC of
\* the server's local date.
selectedDate(day) == day * 24
today(tz) == 0 - tz

Reverse(s) == [i \in 1..Len(s) |-> s[Len(s) + 1 - i]]

(* ---------------- middleware ---------------- *)
\* authenticateToken attaches the identity-store record of the caller.
authenticateToken(caller) == caller \in UserIds

authorizeRoles(roles, caller) == RoleOf(caller) \in roles

(* ---------------- client session ---------------- *)
Accounts == {"u1", "a1"}

NoUser == "null"
NoToken == <<>>

\* The token the server signs for an account in answer to the n-th call; a
\* token left in localStorage by an earlier visit is numbered 0.
Jwt(account, n) == <<account, n>>

Mounted == [pc |-> "mounted", storedToken |-> NoToken, outcome |-> "none"]

\* useState(null), useState(localStorage.getItem('token')), useState(true).
Mount(stored) ==
  /\ user = NoUser
  /\ token = stored
  /\ loading = TRUE
  /\ localStorage = stored
  /\ mount = Mounted
  /\ pending = {}
  /\ authCalls = 0

(* ---------------- initial state ---------------- *)
Init ==
  /\ services = [s \in ServiceIds |-> IF s = "s1" THEN 50 ELSE 80]
  /\ bookings = <<>>
  /\ reqs = [s \in Slots |-> Idle]
  /\ resp = NoResp
  /\ issued = 0
  /\ Mount(NoToken)

\* A handler step runs once the previous response has left the server.
CanStep == resp = NoResp

\* A new request is handled by the first free handler slot.
CanIssue(s) ==
  /\ CanStep
  /\ reqs[s].op = "idle"
  /\ \A t \in Slots : t < s => reqs[t].op # "idle"
  /\ issued < MaxRequests

\* The ledger holds at most MaxBookings records, counting those being created.
CanCreate == Len(bookings) + Cardinality({t \in Slots : reqs[t].op = "create"}) < MaxBookings

(* ---------------- GET / ---------------- *)
\* The list filter without the owner restriction for the 'user' role.
ListFilter_NoOwner(caller, status, b) ==
  /\ (status # NoStatus => b.status = status)
  /\ (RoleOf(caller) = "mechanic" => b.mechanic = caller)

\* The list filter with the mechanic restricted by owner instead of by
\* assignment.
ListFilter_MechanicByOwner(caller, status, b) ==
  /\ (status # NoStatus => b.status = status)
  /\ (RoleOf(caller) = "user" => b.user = caller)
  /\ (RoleOf(caller) = "mechanic" => b.user = caller)

ListFilter(caller, status, b) ==
  /\ (status # NoStatus => b.status = status)
  /\ (RoleOf(caller) = "user" => b.user = caller)
  /\ (RoleOf(caller) = "mechanic" => b.mechanic = caller)

\* Booking.find(filter).sort({ createdAt: -1 })
Find(caller, status) ==
  LET Test(b) == ListFilter(caller, status, b)
  IN Reverse(SelectSeq(bookings, Test))

GetBookingsReq(s, caller, status) ==
  /\ authenticateToken(caller)
  /\ resp' = Response("list", caller, [status |-> status], 200, "", Find(caller, status), NoLocal)
  /\ issued' = issued + 1
  /\ UNCHANGED <<authVars, services, bookings, reqs>>

GetBookings(s) ==
  /\ CanIssue(s)
  /\ \E caller \in UserIds, status \in FilterInputs :
       GetBookingsReq(s, caller, status)

(* ---------------- POST / ---------------- *)
\* The create checks without the date check.
CreateError_NoDateCheck(req) ==
  IF ~req.fieldsOk \/ ~isMongoId(req.service) THEN <<400, "errors">>
  ELSE IF req.service \notin DOMAIN services THEN <<404, "Service not found">>
  ELSE <<0, "">>

CreateError(req) ==
  IF ~req.fieldsOk \/ ~isMongoId(req.service) THEN <<400, "errors">>
  ELSE IF req.service \notin DOMAIN services THEN <<404, "Service not found">>
  ELSE IF selectedDate(req.day) < today(req.tz)
       THEN <<400, "Appointment date must be in the future">>
  ELSE <<0, "">>

\* Validation, Service.findById and the date check.
CreateBookingReq(s, caller, service, fieldsOk, day, tz) ==
  /\ CanCreate
  /\ authenticateToken(caller)
  /\ LET req == [service |-> service, fieldsOk |-> fieldsOk, day |-> day, tz |-> tz]
         err == CreateError(req)
     IN IF err[1] # 0
        THEN /\ resp' = Response("create", caller, req, err[1], err[2], NoBody, NoLocal)
             /\ reqs' = reqs
        ELSE /\ reqs' = [reqs EXCEPT ![s] =
                   [op |-> "create", caller |-> caller, req |-> req,
                    service |-> [id |-> service, price |-> services[service]],
                    fresh |-> TRUE]]
             /\ resp' = resp
  /\ issued' = issued + 1
  /\ UNCHANGED <<authVars, services, bookings>>

CreateBooking(s) ==
  /\ CanIssue(s)
  /\ \E caller \in UserIds, service \in ServiceIdInputs, fieldsOk \in BOOLEAN,
        day \in DayInputs, tz \in TzInputs :
       CreateBookingReq(s, caller, service, fieldsOk, day, tz)

\* A booking whose amount does not come from the resolved service.
NewBooking_FixedAmount(id, caller, serviceId, price) ==
  [id |-> id, user |-> caller, service |-> serviceId, mechanic |-> NoMechanic,
   status |-> "pending", totalAmount |-> 50]

\* new Booking({...}); status is left to the schema default.
NewBooking(id, caller, serviceId, price) ==
  [id |-> id, user |-> caller, service |-> serviceId, mechanic |-> NoMechanic,
   status |-> "pending", totalAmount |-> price]

\* booking.save(), populate, res.status(201)
CreateBookingSave(s) ==
  /\ CanStep
  /\ reqs[s].op = "create"
  /\ LET b == NewBooking(Len(bookings) + 1, reqs[s].caller, reqs[s].req.service,
                         reqs[s].service.price)
     IN /\ bookings' = Append(bookings, b)
        /\ resp' = Response("create", reqs[s].caller, reqs[s].req, 201,
                            "Booking created successfully", b,
                            [service |-> reqs[s].service, fresh |-> reqs[s].fresh])
  /\ reqs' = [reqs EXCEPT ![s] = Idle]
  /\ UNCHANGED <<authVars, services, issued>>

(* ---------------- PATCH /:id/status ---------------- *)
\* The status checks without the users-can-only-cancel check.
StatusError_NoCancelOnly(caller, req) ==
  IF req.status \notin Statuses THEN <<400, "Invalid status">>
  ELSE IF req.id = MalformedBookingId THEN <<500, "Server error">>
  ELSE IF ~BookingExists(req.id) THEN <<404, "Booking not found">>
  ELSE IF RoleOf(caller) = "user" /\ bookings[req.id].user # caller
       THEN <<403, "Access denied">>
  ELSE <<0, "">>

\* The status checks without the ownership check.
StatusError_NoOwnerCheck(caller, req) ==
  IF req.status \notin Statuses THEN <<400, "Invalid status">>
  ELSE IF req.id = MalformedBookingId THEN <<500, "Server error">>
  ELSE IF ~BookingExists(req.id) THEN <<404, "Booking not found">>
  ELSE IF RoleOf(caller) = "user" /\ req.status # "cancelled"
       THEN <<403, "Users can only cancel bookings">>
  ELSE <<0, "">>

\* The status checks with the booking looked up before the target is
\* validated.
StatusError_ExistenceFirst(caller, req) ==
  IF req.id = MalformedBookingId THEN <<500, "Server error">>
  ELSE IF ~BookingExists(req.id) THEN <<404, "Booking not found">>
  ELSE IF req.status \notin Statuses THEN <<400, "Invalid status">>
  ELSE IF RoleOf(caller) = "user" /\ bookings[req.id].user # caller
       THEN <<403, "Access denied">>
  ELSE IF RoleOf(caller) = "user" /\ req.status # "cancelled"
       THEN <<403, "Users can only cancel bookings">>
  ELSE <<0, "">>

\* The status checks with mechanics restricted to the bookings assigned to
\* them.
StatusError_AssignedMechanicOnly(caller, req) ==
  IF req.status \notin Statuses THEN <<400, "Invalid status">>
  ELSE IF req.id = MalformedBookingId THEN <<500, "Server error">>
  ELSE IF ~BookingExists(req.id) THEN <<404, "Booking not found">>
  ELSE IF RoleOf(caller) = "user" /\ bookings[req.id].user # caller
       THEN <<403, "Access denied">>
  ELSE IF RoleOf(caller) = "mechanic" /\ bookings[req.id].mechanic # caller
       THEN <<403, "Access denied">>
  ELSE IF RoleOf(caller) = "user" /\ req.status # "cancelled"
       THEN <<403, "Users can only cancel bookings">>
  ELSE <<0, "">>

StatusError(caller, req) ==
  IF req.status \notin Statuses THEN <<400, "Invalid status">>
  ELSE IF req.id = MalformedBookingId THEN <<500, "Server error">>
  ELSE IF ~BookingExists(req.id) THEN <<404, "Booking not found">>
  ELSE IF RoleOf(caller) = "user" /\ bookings[req.id].user # caller
       THEN <<403, "Access denied">>
  ELSE IF RoleOf(caller) = "user" /\ req.status # "cancelled"
       THEN <<403, "Users can only cancel bookings">>
  ELSE <<0, "">>

\* Status validation, Booking.findById and the permission checks.
UpdateStatusReq(s, caller, id, status) ==
  /\ authenticateToken(caller)
  /\ LET req == [id |-> id, status |-> status]
         err == StatusError(caller, req)
     IN IF err[1] # 0
        THEN /\ resp' = Response("status", caller, req, err[1], err[2], NoBody, NoLocal)
             /\ reqs' = reqs
        ELSE /\ reqs' = [reqs EXCEPT ![s] =
                   [op |-> "status", caller |-> caller, req |-> req,
                    booking |-> bookings[id], writes |-> <<>>]]
             /\ resp' = resp
  /\ issued' = issued + 1
  /\ UNCHANGED <<authVars, services, bookings>>

UpdateStatus(s) ==
  /\ CanIssue(s)
  /\ \E caller \in UserIds, id \in BookingIdInputs, status \in StatusInputs :
       UpdateStatusReq(s, caller, id, status)

\* A save that writes nothing.
SaveStatus_NoWrite(stored, loaded, status) == stored

\* A save that writes the status whether or not it was modified.
SaveStatus_AlwaysWrite(stored, loaded, status) == [stored EXCEPT !.status = status]

\* A save that replaces the stored document by the loaded one.
SaveStatus_WholeDocument(stored, loaded, status) ==
  IF loaded.status # status THEN [loaded EXCEPT !.status = status] ELSE stored

\* A save that also recomputes the amount from the catalog.
SaveStatus_Reprice(stored, loaded, status) ==
  [stored EXCEPT !.status = status, !.totalAmount = services[stored.service]]

\* booking.status = status; booking.save() writes the paths of the loaded
\* document that were modified, and nothing when none was.
SaveStatus(stored, loaded, status) ==
  IF loaded.status # status THEN [stored EXCEPT !.status = status] ELSE stored

\* writes records the statuses stored for a booking, by the saves of other
\* requests, since an update-status handler loaded it: it is history, read by
\* no handler.
Overwritten(r, id, status) ==
  IF r.op = "status" /\ r.req.id = id THEN [r EXCEPT !.writes = Append(@, status)] ELSE r

\* booking.save(), populate, res.json
UpdateStatusSave(s) ==
  /\ CanStep
  /\ reqs[s].op = "status"
  /\ LET id == reqs[s].req.id
         status == reqs[s].req.status
     IN /\ bookings' = [bookings EXCEPT ![id] = SaveStatus(@, reqs[s].booking, status)]
        /\ resp' = Response("status", reqs[s].caller, reqs[s].req, 200,
                            "Booking status updated successfully",
                            [reqs[s].booking EXCEPT !.status = status],
                            [booking |-> reqs[s].booking, writes |-> reqs[s].writes])
        /\ reqs' = [t \in Slots |->
                     IF t = s THEN Idle
                     ELSE IF bookings'[id].status # bookings[id].status
                          THEN Overwritten(reqs[t], id, status)
                          ELSE reqs[t]]
  /\ UNCHANGED <<authVars, services, issued>>

(* ---------------- PATCH /:id/assign-mechanic ---------------- *)
\* The assign checks with a lookup by id alone, whatever the role.
AssignError_AnyRole(caller, req) ==
  IF ~authorizeRoles({"admin"}, caller) THEN <<403, "AuthorizationError">>
  ELSE IF ~isMongoId(req.mechanicId) THEN <<500, "Server error">>
  ELSE IF req.mechanicId \notin UserIds THEN <<404, "Mechanic not found">>
  ELSE <<0, "">>

\* The assign route without the authorizeRoles('admin') middleware.
AssignError_NoAuthorize(caller, req) ==
  IF ~isMongoId(req.mechanicId) THEN <<500, "Server error">>
  ELSE IF ~(req.mechanicId \in UserIds /\ RoleOf(req.mechanicId) = "mechanic")
       THEN <<404, "Mechanic not found">>
  ELSE <<0, "">>

AssignError(caller, req) ==
  IF ~authorizeRoles({"admin"}, caller) THEN <<403, "AuthorizationError">>
  ELSE IF ~isMongoId(req.mechanicId) THEN <<500, "Server error">>
  ELSE IF ~(req.mechanicId \in UserIds /\ RoleOf(req.mechanicId) = "mechanic")
       THEN <<404, "Mechanic not found">>
  ELSE <<0, "">>

\* authorizeRoles('admin') and User.findOne({ _id: mechanicId, role: 'mechanic' })
AssignMechanicReq(s, caller, id, mechanicId) ==
  /\ authenticateToken(caller)
  /\ LET req == [id |-> id, mechanicId |-> mechanicId]
         err == AssignError(caller, req)
     IN IF err[1] # 0
        THEN /\ resp' = Response("assign", caller, req, err[1], err[2], NoBody, NoLocal)
             /\ reqs' = reqs
        ELSE /\ reqs' = [reqs EXCEPT ![s] =
                   [op |-> "assign", caller |-> caller, req |-> req]]
             /\ resp' = resp
  /\ issued' = issued + 1
  /\ UNCHANGED <<authVars, services, bookings>>

AssignMechanic(s) ==
  /\ CanIssue(s)
  /\ \E caller \in UserIds, id \in BookingIdInputs, mechanicId \in UserIdInputs :
       AssignMechanicReq(s, caller, id, mechanicId)

\* An update document that sets the owner instead of the mechanic.
SetMechanic_Owner(stored, mechanicId) == [stored EXCEPT !.user = mechanicId]

\* The update document { mechanic: mechanicId }
SetMechanic(stored, mechanicId) == [stored EXCEPT !.mechanic = mechanicId]

\* Booking.findByIdAndUpdate(bookingId, { mechanic: mechanicId }, { new: true })
AssignMechanicUpdate(s) ==
  /\ CanStep
  /\ reqs[s].op = "assign"
  /\ LET id == reqs[s].req.id
         caller == reqs[s].caller
         req == reqs[s].req
     IN IF id = MalformedBookingId
        THEN /\ resp' = Response("assign", caller, req, 500, "Server error", NoBody, NoLocal)
             /\ bookings' = bookings
        ELSE IF ~BookingExists(id)
        THEN /\ resp' = Response("assign", caller, req, 404, "Booking not found", NoBody, NoLocal)
             /\ bookings' = bookings
        ELSE /\ bookings' = [bookings EXCEPT ![id] = SetMechanic(@, req.mechanicId)]
             /\ resp' = Response("assign", caller, req, 200, "Mechanic assigned successfully",
                                 SetMechanic(bookings[id], req.mechanicId), NoLocal)
  /\ reqs' = [reqs EXCEPT ![s] = Idle]
  /\ UNCHANGED <<authVars, services, issued>>

(* ---------------- GET /:id ---------------- *)
\* The visibility check without the assigned-mechanic clause.
canAccess_NoMechanic(caller, booking) ==
  \/ RoleOf(caller) = "admin"
  \/ booking.user = caller

canAccess(caller, booking) ==
  \/ RoleOf(caller) = "admin"
  \/ booking.user = caller
  \/ (booking.mechanic # NoMechanic /\ booking.mechanic = caller)

GetBookingByIdReq(s, caller, id) ==
  /\ authenticateToken(caller)
  /\ LET req == [id |-> id]
     IN resp' =
       IF id = MalformedBookingId
       THEN Response("get", caller, req, 500, "Server error", NoBody, NoLocal)
       ELSE IF ~BookingExists(id)
       THEN Response("get", caller, req, 404, "Booking not found", NoBody, NoLocal)
       ELSE IF ~canAccess(caller, bookings[id])
       THEN Response("get", caller, req, 403, "Access denied", NoBody, NoLocal)
       ELSE Response("get", caller, req, 200, "", bookings[id], NoLocal)
  /\ issued' = issued + 1
  /\ UNCHANGED <<authVars, services, bookings, reqs>>

GetBookingById(s) ==
  /\ CanIssue(s)
  /\ \E caller \in UserIds, id \in BookingIdInputs :
       GetBookingByIdReq(s, caller, id)

(* ---------------- service catalog maintenance ---------------- *)
\* fresh records whether the service document a create handler holds is
\* still the stored one: it is history, read by no handler.
Outdated(r, service) ==
  IF r.op = "create" /\ r.service.id = service THEN [r EXCEPT !.fresh = FALSE] ELSE r

\* An admin changes the price of a service (services route).
UpdateServicePrice(service, price) ==
  /\ CanStep
  /\ issued < MaxRequests
  /\ services[service] # price
  /\ services' = [services EXCEPT ![service] = price]
  /\ reqs' = [t \in Slots |-> Outdated(reqs[t], service)]
  /\ issued' = issued + 1
  /\ UNCHANGED <<authVars, bookings, resp>>

(* ---------------- the response leaves the server ---------------- *)
Deliver ==
  /\ resp # NoResp
  /\ resp' = NoResp
  /\ UNCHANGED <<authVars, services, bookings, reqs, issued>>

Next ==
  \/ \E s \in Slots : GetBookings(s)
  \/ \E s \in Slots : CreateBooking(s)
  \/ \E s \in Slots : CreateBookingSave(s)
  \/ \E s \in Slots : UpdateStatus(s)
  \/ \E s \in Slots : UpdateStatusSave(s)
  \/ \E s \in Slots : AssignMechanic(s)
  \/ \E s \in Slots : AssignMechanicUpdate(s)
  \/ \E s \in Slots : GetBookingById(s)
  \/ \E sv \in ServiceIds, p \in Prices : UpdateServicePrice(sv, p)
  \/ Deliver

Spec == Init /\ [][Next]_vars

\* The server started on a ledger that already holds a booking of u1 for
\* service s1, created at the price of 50.
InitWithBooking ==
  /\ services = [s \in ServiceIds |-> IF s = "s1" THEN 50 ELSE 80]
  /\ bookings = <<NewBooking(1, "u1", "s1", 50)>>
  /\ reqs = [s \in Slots |-> Idle]
  /\ resp = NoResp
  /\ issued = 0
  /\ Mount(NoToken)

SpecWithBooking == InitWithBooking /\ [][Next]_vars

(* ---------------- AuthProvider ---------------- *)
\* The page is loaded with no token, or with the token an earlier visit left
\* in localStorage; the server is quiescent.
InitAuth ==
  /\ services = [s \in ServiceIds |-> IF s = "s1" THEN 50 ELSE 80]
  /\ bookings = <<>>
  /\ reqs = [s \in Slots |-> Idle]
  /\ resp = NoResp
  /\ issued = 0
  /\ \E stored \in {NoToken} \cup {Jwt(a, 0) : a \in Accounts} : Mount(stored)

\* The mount effect: initAuth reads the stored token and either sends
\* GET /auth/me (the interceptor attaches the stored token) or, with no
\* token, clears loading at once.
initAuth ==
  /\ mount.pc = "mounted"
  /\ LET storedToken == localStorage
     IN IF storedToken # NoToken
        THEN /\ mount' = [pc |-> "me", storedToken |-> storedToken, outcome |-> "none"]
             /\ UNCHANGED loading
        ELSE /\ mount' = [pc |-> "done", storedToken |-> storedToken, outcome |-> "notoken"]
             /\ loading' = FALSE
  /\ UNCHANGED <<serverVars, user, token, localStorage, pending, authCalls>>

\* GET /auth/me answered with the user of the token that was sent.
initAuthResolved ==
  /\ mount.pc = "me"
  /\ user' = mount.storedToken[1]
  /\ token' = mount.storedToken
  /\ loading' = FALSE
  /\ mount' = [mount EXCEPT !.pc = "done", !.outcome = "resolved"]
  /\ UNCHANGED <<serverVars, localStorage, pending, authCalls>>

\* The catch block without the setLoading(false) that follows it.
initAuthRejected_StillLoading ==
  /\ mount.pc = "me"
  /\ localStorage' = NoToken
  /\ token' = NoToken
  /\ mount' = [mount EXCEPT !.pc = "done", !.outcome = "rejected"]
  /\ UNCHANGED <<serverVars, user, loading, pending, authCalls>>

\* GET /auth/me failed (token rejected by the server, or no answer).
initAuthRejected ==
  /\ mount.pc = "me"
  /\ localStorage' = NoToken
  /\ token' = NoToken
  /\ loading' = FALSE
  /\ mount' = [mount EXCEPT !.pc = "done", !.outcome = "rejected"]
  /\ UNCHANGED <<serverVars, user, pending, authCalls>>

\* login, register and logout are called from event handlers of the
\* children, which run after the mount effect.
CanCall == mount.pc # "mounted" /\ authCalls < MaxAuthCalls

\* The request of a login or register call is sent.
Post(kind, account) ==
  /\ CanCall
  /\ authCalls' = authCalls + 1
  /\ pending' = pending \cup {[kind |-> kind, account |-> account, n |-> authCalls + 1]}
  /\ UNCHANGED <<serverVars, user, token, loading, localStorage, mount>>

\* The response of a login or register call carries a token and a user.
StoreSession(call) ==
  /\ call \in pending
  /\ localStorage' = Jwt(call.account, call.n)
  /\ token' = Jwt(call.account, call.n)
  /\ user' = call.account
  /\ pending' = pending \ {call}
  /\ UNCHANGED <<serverVars, loading, mount, authCalls>>

\* The request failed: the call throws and the session is left as it is.
Throw(call) ==
  /\ call \in pending
  /\ pending' = pending \ {call}
  /\ UNCHANGED <<serverVars, user, token, loading, localStorage, mount, authCalls>>

login(account) == Post("login", account)

loginResolved(call) == call.kind = "login" /\ StoreSession(call)

loginRejected(call) == call.kind = "login" /\ Throw(call)

register(account) == Post("register", account)

registerResolved(call) == call.kind = "register" /\ StoreSession(call)

registerRejected(call) == call.kind = "register" /\ Throw(call)

logout ==
  /\ CanCall
  /\ authCalls' = authCalls + 1
  /\ localStorage' = NoToken
  /\ token' = NoToken
  /\ user' = NoUser
  /\ UNCHANGED <<serverVars, loading, mount, pending>>

NextAuth ==
  \/ initAuth
  \/ initAuthResolved
  \/ initAuthRejected
  \/ \E a \in Accounts : login(a)
  \/ \E c \in pending : loginResolved(c)
  \/ \E c \in pending : loginRejected(c)
  \/ \E a \in Accounts : register(a)
  \/ \E c \in pending : registerResolved(c)
  \/ \E c \in pending : registerRejected(c)
  \/ logout

SpecAuth == InitAuth /\ [][NextAuth]_vars

\* The mount effect runs, and the token-restore request completes.
SpecAuthFair ==
  /\ InitAuth
  /\ [][NextAuth]_vars
  /\ WF_vars(initAuth)
  /\ WF_vars(initAuthResolved \/ initAuthRejected)

(***************************************************************************)
(* Properties                                                              *)
(***************************************************************************)
Answered(op) == resp.op = op

\* The booking the request named existed when the answering step ran.
TargetExisted == resp.req.id \in 1..Len(resp.before)

Unchanged == bookings = resp.before

\* C1: every create-booking request that succeeds has persisted exactly one
\* new booking, owned by the caller, with status 'pending', referencing the
\* requested service, whose totalAmount is the price of the service document
\* the handler resolved for this request; that price is the catalog price of
\* the service unless the price was changed after the handler resolved it.
C1_CreatedBookingSnapshot ==
  /\ (Answered("create") /\ resp.code = 201) =>
        LET b == bookings[Len(bookings)]
        IN /\ bookings = Append(resp.before, b)
           /\ b.id = Len(bookings)
           /\ b.user = resp.caller
           /\ b.status = "pending"
           /\ b.mechanic = NoMechanic
           /\ b.service = resp.req.service
           /\ resp.local.service.id = resp.req.service
           /\ b.totalAmount = resp.local.service.price
           /\ (resp.local.fresh => b.totalAmount = services[resp.req.service])
           /\ resp.body = b
  /\ \A s \in Slots :
        (reqs[s].op = "create" /\ reqs[s].fresh) =>
           reqs[s].service.price = services[reqs[s].req.service]

C1_Witness ==
  /\ Answered("create") /\ resp.code = 201
  /\ resp.local.fresh
  /\ resp.req.service = "s2"
  /\ bookings[Len(bookings)].totalAmount = 80
  /\ services["s1"] = 50

\* C2: a create-booking request whose appointment date is a calendar day
\* before the server's current day fails and leaves the ledger unchanged; when
\* its fields are valid and its service resolves, it fails with 400
\* 'Appointment date must be in the future'.
C2_PastDateRejected ==
  (Answered("create") /\ resp.req.day < 0) =>
     /\ resp.code \in {400, 404}
     /\ Unchanged
     /\ (resp.req.fieldsOk /\ resp.req.service \in ServiceIds) =>
           /\ resp.code = 400
           /\ resp.message = "Appointment date must be in the future"

C2_Witness ==
  /\ Answered("create") /\ resp.req.day < 0
  /\ resp.req.fieldsOk /\ resp.req.service \in ServiceIds
  /\ resp.code = 400
  /\ Len(bookings) = 1

\* C3: a list-bookings response to a caller with role 'user' holds only stored
\* bookings owned by that caller, with or without a status filter.
C3_UserListsOwnOnly ==
  (Answered("list") /\ RoleOf(resp.caller) = "user") =>
     \A i \in 1..Len(resp.body) :
        /\ resp.body[i].user = resp.caller
        /\ resp.body[i] = bookings[resp.body[i].id]
        /\ (resp.req.status # NoStatus => resp.body[i].status = resp.req.status)

C3_Witness ==
  /\ Answered("list") /\ RoleOf(resp.caller) = "user"
  /\ Len(resp.body) = 1
  /\ Len(bookings) = 2
  /\ \E i \in 1..Len(bookings) : bookings[i].user # resp.caller

\* C4: an update-status request by a caller with role 'user' naming an
\* existing booking and an enumerated target other than 'cancelled' is answered
\* 403 and changes nothing, whatever the current status and the owner; no such
\* request ever gets as far as the save.
C4_UserNonCancelForbidden ==
  /\ (/\ Answered("status") /\ RoleOf(resp.caller) = "user"
      /\ resp.req.status \in Statuses \ {"cancelled"}
      /\ TargetExisted) =>
        /\ resp.code = 403
        /\ Unchanged
  /\ \A s \in Slots :
        (reqs[s].op = "status" /\ RoleOf(reqs[s].caller) = "user") =>
           reqs[s].req.status = "cancelled"

C4_Witness ==
  /\ Answered("status") /\ RoleOf(resp.caller) = "user"
  /\ resp.req.status = "approved"
  /\ TargetExisted
  /\ resp.before[resp.req.id].user = resp.caller
  /\ resp.code = 403

\* C5: an update-status request by a caller with role 'user' naming an
\* existing booking owned by someone else, with any enumerated target
\* ('cancelled' included), is answered 403 and changes nothing; no such request
\* ever gets as far as the save.
C5_UserForeignBookingForbidden ==
  /\ (/\ Answered("status") /\ RoleOf(resp.caller) = "user"
      /\ resp.req.status \in Statuses
      /\ TargetExisted
      /\ resp.before[resp.req.id].user # resp.caller) =>
        /\ resp.code = 403
        /\ Unchanged
  /\ \A s \in Slots :
        (reqs[s].op = "status" /\ RoleOf(reqs[s].caller) = "user") =>
           reqs[s].booking.user = reqs[s].caller

C5_Witness ==
  /\ Answered("status") /\ RoleOf(resp.caller) = "user"
  /\ resp.req.status = "cancelled"
  /\ TargetExisted
  /\ resp.before[resp.req.id].user # resp.caller
  /\ resp.code = 403

\* The stored bookings a list request by caller with the given filter matches.
Visible(caller, status) ==
  {i \in 1..Len(bookings) :
     /\ (status # NoStatus => bookings[i].status = status)
     /\ (RoleOf(caller) = "user" => bookings[i].user = caller)
     /\ (RoleOf(caller) = "mechanic" => bookings[i].mechanic = caller)}

\* Every read answers with the stored records: get-by-id with the stored
\* booking, list with each matching stored booking.
ReadsReturnStored ==
  /\ (Answered("get") /\ resp.code = 200) => resp.body = bookings[resp.req.id]
  /\ Answered("list") =>
        /\ \A i \in 1..Len(resp.body) : resp.body[i] = bookings[resp.body[i].id]
        /\ {resp.body[i].id : i \in 1..Len(resp.body)} = Visible(resp.caller, resp.req.status)

\* An own-booking cancel request by a 'user' is never refused, and when the
\* booking was loaded as 'pending' the save stores 'cancelled'.
OwnCancelSucceeds ==
  (/\ Answered("status") /\ RoleOf(resp.caller) = "user"
   /\ resp.req.status = "cancelled"
   /\ TargetExisted
   /\ resp.before[resp.req.id].user = resp.caller) =>
      /\ resp.code = 200
      /\ resp.body.status = "cancelled"
      /\ resp.local.booking.status = "pending" => bookings[resp.req.id].status = "cancelled"

\* A stored status stops being 'cancelled' only in the save step of an
\* update-status request for that booking with another target.
CancelledUntilUpdated ==
  \A id \in 1..Len(bookings) :
     (bookings[id].status = "cancelled" /\ bookings'[id].status # "cancelled") =>
        /\ resp'.op = "status" /\ resp'.code = 200
        /\ resp'.req.id = id
        /\ resp'.req.status = bookings'[id].status

\* C6: a caller with role 'user' can cancel their own pending booking: the
\* update to 'cancelled' succeeds and is stored, every read (get by id, list)
\* returns the stored record, and the stored status stays 'cancelled' until the
\* save of another status update on that booking.
C6_UserCancelsOwnPending ==
  /\ [](OwnCancelSucceeds /\ ReadsReturnStored)
  /\ [][CancelledUntilUpdated]_vars

C6_Witness ==
  /\ Answered("get") /\ resp.code = 200
  /\ RoleOf(resp.caller) = "user"
  /\ resp.body.user = resp.caller
  /\ resp.body.status = "cancelled"

\* C7: a create-booking request by a caller with role 'mechanic' or 'admin'
\* (with valid fields, a resolving service and a date after today) is answered
\* 403 and persists no booking.
C7_OnlyUsersCreate ==
  (/\ Answered("create") /\ RoleOf(resp.caller) \in {"mechanic", "admin"}
   /\ resp.req.fieldsOk /\ resp.req.service \in ServiceIds /\ resp.req.day > 0) =>
      /\ resp.code = 403
      /\ Unchanged

\* C8: a get-booking-by-id request naming an existing booking is answered 200
\* with the booking exactly when the caller is an admin, the booking's owner or
\* its assigned mechanic, and otherwise 403 without booking data.
C8_GetByIdVisibility ==
  (Answered("get") /\ TargetExisted) =>
     LET b == resp.before[resp.req.id]
         permitted == \/ RoleOf(resp.caller) = "admin"
                      \/ b.user = resp.caller
                      \/ b.mechanic = resp.caller
     IN /\ Unchanged
        /\ permitted => (resp.code = 200 /\ resp.body = b)
        /\ ~permitted => (resp.code = 403 /\ resp.body = NoBody)

C8_Witness ==
  /\ Answered("get") /\ TargetExisted
  /\ RoleOf(resp.caller) = "mechanic"
  /\ resp.before[resp.req.id].mechanic = resp.caller
  /\ resp.before[resp.req.id].user # resp.caller
  /\ resp.code = 200

C8_WitnessDenied ==
  /\ Answered("get") /\ TargetExisted
  /\ RoleOf(resp.caller) = "mechanic"
  /\ resp.before[resp.req.id].mechanic = NoMechanic
  /\ resp.code = 403

\* The identity references that resolve to no user with role 'mechanic'.
NotAMechanic == {u \in UserIds : RoleOf(u) # "mechanic"} \cup {AbsentUserId}

\* C9: an assign-mechanic request that reaches the handler (an admin's) with a
\* well-formed identity reference that resolves to no user with role 'mechanic'
\* is answered 404 'Mechanic not found' and changes nothing, whether or not the
\* booking exists; no such request gets as far as the update.
C9_AssignNonMechanicNotFound ==
  /\ (Answered("assign") /\ resp.req.mechanicId \in NotAMechanic) =>
        /\ Unchanged
        /\ resp.code \in {403, 404}
        /\ RoleOf(resp.caller) = "admin" =>
              (resp.code = 404 /\ resp.message = "Mechanic not found")
  /\ \A s \in Slots :
        reqs[s].op = "assign" => reqs[s].req.mechanicId \notin NotAMechanic

C9_Witness ==
  /\ Answered("assign") /\ RoleOf(resp.caller) = "admin"
  /\ resp.req.mechanicId = "u1"
  /\ TargetExisted
  /\ resp.code = 404

C9_WitnessNoBooking ==
  /\ Answered("assign") /\ RoleOf(resp.caller) = "admin"
  /\ resp.req.mechanicId = AbsentUserId
  /\ resp.req.id = 1 /\ ~TargetExisted
  /\ resp.code = 404

\* The mechanic reference of booking id differs from what it was before the
\* step (for a new booking: from unset).
MechanicRefChanged(id) ==
  IF id <= Len(resp.before)
  THEN bookings[id].mechanic # resp.before[id].mechanic
  ELSE bookings[id].mechanic # NoMechanic

\* C10: an assign-mechanic request by a caller with role 'user' or 'mechanic'
\* is answered 403, never reaches the update and changes no booking; a step
\* changes a booking's mechanic reference only as the update of an admin's
\* assign request for that booking.
C10_AssignAdminOnly ==
  /\ (Answered("assign") /\ RoleOf(resp.caller) # "admin") =>
        (resp.code = 403 /\ Unchanged)
  /\ \A s \in Slots : reqs[s].op = "assign" => RoleOf(reqs[s].caller) = "admin"
  /\ resp # NoResp =>
        \A id \in 1..Len(bookings) :
           MechanicRefChanged(id) =>
              /\ Answered("assign") /\ RoleOf(resp.caller) = "admin"
              /\ resp.code = 200
              /\ resp.req.id = id
              /\ bookings[id].mechanic = resp.req.mechanicId

C10_Witness ==
  /\ Answered("assign") /\ RoleOf(resp.caller) = "mechanic"
  /\ resp.req.mechanicId = resp.caller
  /\ TargetExisted
  /\ resp.code = 403

C10_WitnessAssigned ==
  /\ Answered("assign") /\ RoleOf(resp.caller) = "admin"
  /\ resp.code = 200
  /\ MechanicRefChanged(resp.req.id)

\* No step removes a booking or changes the owner of a stored booking.
OwnerKept ==
  /\ Len(bookings') >= Len(bookings)
  /\ \A id \in 1..Len(bookings) : bookings'[id].user = bookings[id].user

\* C11: a booking is stored with the caller of its create request as owner,
\* and no step of any status update or mechanic assignment, successful or
\* failed, by any caller and in any order, changes the owner of a stored
\* booking.
C11_OwnerImmutable ==
  /\ []((Answered("create") /\ resp.code = 201) =>
          bookings[Len(bookings)].user = resp.caller)
  /\ [][OwnerKept]_vars

C11_Witness ==
  /\ Answered("assign") /\ resp.code = 200
  /\ bookings[resp.req.id].status = "cancelled"
  /\ bookings[resp.req.id].user = "u2"
  /\ bookings[resp.req.id].mechanic = "m1"

\* No step changes the totalAmount of a stored booking.
AmountKept ==
  \A id \in 1..Len(bookings) : bookings'[id].totalAmount = bookings[id].totalAmount

\* C12: after creation the totalAmount of a booking is never changed, by any
\* status update, mechanic assignment or change of the price of the
\* referenced service.
C12_AmountSnapshot == [][AmountKept]_vars

C12_Witness ==
  /\ Answered("status") /\ resp.code = 200
  /\ bookings[resp.req.id].totalAmount # services[bookings[resp.req.id].service]

\* The request named a well-formed booking id that resolved to no booking.
TargetAbsent == resp.req.id # MalformedBookingId /\ ~TargetExisted

\* C13: update-status checks run in the order validation, existence,
\* authorization: a target outside the six enumerated values is answered 400
\* whatever the booking and the caller; an enumerated target for a booking
\* that does not exist is answered 404 whatever the caller and the target; 403
\* is answered only for an existing booking and an enumerated target.
C13_StatusCheckOrder ==
  Answered("status") =>
     /\ resp.req.status \notin Statuses =>
           (resp.code = 400 /\ resp.message = "Invalid status" /\ Unchanged)
     /\ (resp.req.status \in Statuses /\ TargetAbsent) =>
           (resp.code = 404 /\ resp.message = "Booking not found" /\ Unchanged)
     /\ resp.code = 403 => (TargetExisted /\ resp.req.status \in Statuses)

C13_Witness ==
  /\ Answered("status") /\ RoleOf(resp.caller) = "user"
  /\ resp.req.status = "approved"
  /\ TargetAbsent
  /\ Len(bookings) = 1
  /\ resp.code = 404

C13_WitnessInvalid ==
  /\ Answered("status") /\ RoleOf(resp.caller) = "user"
  /\ resp.req.status \notin Statuses
  /\ TargetAbsent
  /\ resp.code = 400

\* C14: an update-status request by a mechanic or an admin naming an existing
\* booking and any enumerated target is answered 200 with that status,
\* whatever the status the booking was loaded with and whether or not the
\* mechanic is assigned to it, and the save stores the target whenever it
\* differs from the loaded status ('cancelled' and 'completed' included).
C14_PrivilegedAnyTransition ==
  /\ (/\ Answered("status") /\ RoleOf(resp.caller) \in {"mechanic", "admin"}
      /\ resp.req.status \in Statuses
      /\ TargetExisted) =>
        /\ resp.code = 200
        /\ resp.body.status = resp.req.status
        /\ resp.local.booking.status # resp.req.status =>
              bookings[resp.req.id].status = resp.req.status
  /\ \A s \in Slots :
        (reqs[s].op = "status" /\ RoleOf(reqs[s].caller) \in {"mechanic", "admin"}) =>
           reqs[s].req.status \in Statuses

C14_Witness ==
  /\ Answered("status") /\ RoleOf(resp.caller) = "mechanic"
  /\ resp.code = 200
  /\ resp.local.booking.status = "cancelled"
  /\ resp.req.status = "pending"
  /\ resp.before[resp.req.id].mechanic # resp.caller
  /\ RoleOf(resp.before[resp.req.id].user) = "user"
  /\ bookings[resp.req.id].status = "pending"

C14_WitnessCompleted ==
  /\ Answered("status") /\ RoleOf(resp.caller) = "admin"
  /\ resp.code = 200
  /\ resp.local.booking.status = "completed"
  /\ resp.req.status = "approved"
  /\ bookings[resp.req.id].status = "approved"

\* The ids of the bookings in a list response, in the order returned.
ListedIds == [i \in 1..Len(resp.body) |-> resp.body[i].id]

Descending(ids) == \A i \in 1..(Len(ids) - 1) : ids[i] > ids[i + 1]

\* C15: a list-bookings response to a mechanic holds exactly the stored
\* bookings whose mechanic reference is that mechanic, and to an admin all
\* stored bookings, in both cases restricted to the requested status when a
\* filter is given, each as stored and newest first.
C15_MechanicAndAdminLists ==
  (Answered("list") /\ RoleOf(resp.caller) \in {"mechanic", "admin"}) =>
     /\ \A i \in 1..Len(resp.body) : resp.body[i] = bookings[resp.body[i].id]
     /\ Descending(ListedIds)
     /\ {ListedIds[i] : i \in 1..Len(resp.body)} =
           {id \in 1..Len(bookings) :
              /\ (RoleOf(resp.caller) = "mechanic" => bookings[id].mechanic = resp.caller)
              /\ (resp.req.status # NoStatus => bookings[id].status = resp.req.status)}

\* A booking whose mechanic reference names m2 is not listed for m1.
C15_Witness ==
  /\ Answered("list") /\ resp.caller = "m1"
  /\ \E id \in 1..Len(bookings) : bookings[id].mechanic = "m2"
  /\ \A i \in 1..Len(resp.body) : resp.body[i].mechanic = "m1"

\* The booking assigned to m1 is listed for m1.
C15_WitnessAssigned ==
  /\ Answered("list") /\ resp.caller = "m1"
  /\ Len(resp.body) = 1 /\ resp.body[1].mechanic = "m1"

\* A booking a mechanic created as owner and is not assigned to is not listed.
C15_WitnessOwned ==
  /\ Answered("list") /\ resp.caller = "m1"
  /\ \E id \in 1..Len(bookings) : bookings[id].user = "m1" /\ bookings[id].mechanic # "m1"
  /\ resp.body = <<>>

C15_WitnessAdmin ==
  /\ Answered("list") /\ RoleOf(resp.caller) = "admin"
  /\ resp.req.status = "cancelled"
  /\ Len(bookings) = 2
  /\ Len(resp.body) = 1

\* The save that has just answered sent a write: its target differs from the
\* status of the document it loaded.
WriteApplied == resp.local.booking.status # resp.req.status

\* The targets written by other requests between the load and the save of
\* the update-status request that has just answered.
WritesSinceLoad == resp.local.writes

\* Every update-status request that has loaded its booking answers 200.
SaveSucceeds ==
  \A s \in Slots :
     (reqs[s].op = "status" /\ reqs'[s].op # "status") =>
        (resp'.op = "status" /\ resp'.code = 200 /\ resp'.req = reqs[s].req)

\* C16: update-status requests that overlap on one booking all answer 200,
\* and after each save the stored status is the target of the write applied
\* last (the save's own target when it wrote, otherwise the last target
\* written since its load), never a status that none of them asked for.
C16_LastWriteWins ==
  /\ [](Answered("status") /\ resp.code = 200 =>
          LET stored == bookings[resp.req.id].status
          IN /\ WriteApplied => stored = resp.req.status
             /\ (~WriteApplied /\ WritesSinceLoad # <<>>) =>
                   stored = WritesSinceLoad[Len(WritesSinceLoad)]
             /\ stored \in {resp.req.status} \cup
                           {WritesSinceLoad[i] : i \in 1..Len(WritesSinceLoad)})
  /\ [][SaveSucceeds]_vars

\* Two requests loaded the same booking; the other one wrote first and this
\* one's write, applied last, replaced it.
C16_Witness ==
  /\ Answered("status") /\ resp.code = 200
  /\ WriteApplied
  /\ WritesSinceLoad # <<>>
  /\ WritesSinceLoad[1] # resp.req.status
  /\ bookings[resp.req.id].status = resp.req.status

\* The request that saved last asked for the status it had loaded, so its save
\* wrote nothing and the other request's write stays the last one applied.
C16_WitnessNoWrite ==
  /\ Answered("status") /\ resp.code = 200
  /\ ~WriteApplied
  /\ WritesSinceLoad # <<>>
  /\ bookings[resp.req.id].status # resp.req.status

\* C17: the mechanic reference of every stored booking is unset or names a
\* user whose role is 'mechanic'.
C17_MechanicRefIsMechanic ==
  \A id \in 1..Len(bookings) :
     \/ bookings[id].mechanic = NoMechanic
     \/ (bookings[id].mechanic \in UserIds /\ RoleOf(bookings[id].mechanic) = "mechanic")

\* An assignment has been answered and the booking names the mechanic.
C17_Witness ==
  /\ Answered("assign") /\ resp.code = 200
  /\ bookings[resp.req.id].mechanic = resp.req.mechanicId
  /\ RoleOf(resp.req.mechanicId) = "mechanic"

\* C18: a status update whose load preceded a mechanic assignment on the same
\* booking and whose save followed it leaves the assigned mechanic in place
\* and stores its target status; an assignment leaves the status in place.
C18_StatusAndAssignmentBothKept ==
  /\ (Answered("status") /\ resp.code = 200) =>
        /\ bookings[resp.req.id].mechanic = resp.before[resp.req.id].mechanic
        /\ (WriteApplied => bookings[resp.req.id].status = resp.req.status)
  /\ (Answered("assign") /\ resp.code = 200) =>
        /\ bookings[resp.req.id].status = resp.before[resp.req.id].status
        /\ bookings[resp.req.id].mechanic = resp.req.mechanicId

\* The assignment committed between the load and the save of the status
\* update; the booking holds the target status and the assigned mechanic.
C18_Witness ==
  /\ Answered("status") /\ resp.code = 200
  /\ resp.local.booking.mechanic = NoMechanic
  /\ bookings[resp.req.id].mechanic = "m1"
  /\ resp.local.booking.status # resp.req.status
  /\ bookings[resp.req.id].status = resp.req.status

\* C19: whenever the AuthProvider holds a user, its token is set and is the
\* token stored in localStorage.
C19_SessionConsistent ==
  user # NoUser => (token # NoToken /\ token = localStorage)

\* The step by which the token-restore request fails.
RestoreFails == mount.pc = "me" /\ mount'.pc = "done" /\ mount'.outcome = "rejected"

\* C20: once mounted, loading becomes false (with no stored token, and when
\* the restore request succeeds or fails) and is never true again; the step
\* by which the restore request fails removes the stored token, clears the
\* token state and leaves user as it is, so a null user stays null.
C20_LoadingSettles ==
  /\ <>(~loading)
  /\ [][(~loading => ~loading')
        /\ (RestoreFails =>
              (localStorage' = NoToken /\ token' = NoToken /\ user' = user))]_vars

\* The restore request of a stored token failed: loading is false, the token
\* is gone and there is no user.
C20_Witness ==
  /\ mount.pc = "done" /\ mount.outcome = "rejected"
  /\ mount.storedToken # NoToken
  /\ ~loading
  /\ localStorage = NoToken
  /\ user = NoUser

C20_WitnessResolved ==
  /\ mount.pc = "done" /\ mount.outcome = "resolved"
  /\ ~loading
  /\ user # NoUser

C20_WitnessNoToken ==
  /\ mount.pc = "done" /\ mount.outcome = "notoken"
  /\ ~loading

====
